---------------------------- MODULE Spec2Model ----------------------------
(***************************************************************************)
(* A model of bw.bwconstraint (src/bw/bwconstraint.py): the constraint     *)
(* algebra, its check / convert / coerce protocol and its composition      *)
(* operators.                                                              *)
(*                                                                         *)
(* Python objects are records of one shape (Val); constraints are records  *)
(* of one shape (Con).  check yields "T" or "F" (the truthiness the "in"   *)
(* operator reduces it to) or "E" when an exception leaves the call.       *)
(* convert / coerce yield a Val, or the record Raise(..) when an exception *)
(* leaves the call.                                                        *)
(***************************************************************************)
EXTENDS Integers, Sequences, FiniteSets, TLC

\* ------------------------------------------------------------------ bounds

\* Longest list / tuple candidate.
MaxLen == 2
\* Most children of a composite constraint drawn by Init.
MaxKids == 2
\* Largest multiplier of n * c.
MaxCount == 2
\* Most BWConstraintGenerator objects alive (BWC itself is the first).
MaxNodes == 3
\* Threads materializing nodes at the same time.
MaxThreads == 2

\* ------------------------------------------------------- Python values

MkVal(kind, n, s, id, tname, keys, items) ==
    [kind |-> kind, n |-> n, s |-> s, id |-> id, tname |-> tname,
     keys |-> keys, items |-> items]

\* Object identity is modelled for containers and user objects (field id).
\* Numbers, strings, None and types carry id 0 and are told apart by value
\* alone (small ints and one-character strings are interned objects).
IntV(n) == MkVal("int", n, <<>>, 0, "", <<>>, <<>>)
FloatV(n) == MkVal("float", n, <<>>, 0, "", <<>>, <<>>)
\* A str is the sequence of its characters.
StrV(chars) == MkVal("str", 0, chars, 0, "", <<>>, <<>>)
NoneV == MkVal("NoneType", 0, <<>>, 0, "", <<>>, <<>>)
\* A type object, e.g. type(None).
TypeV(name) == MkVal("type", 0, <<>>, 0, name, <<>>, <<>>)
\* An instance of a user class (class X(object): pass), identified by id.
ObjV(id) == MkVal("obj", 0, <<>>, id, "", <<>>, <<>>)
\* Containers: id 0 is an object created during the call (a fresh copy).
ListV(id, items) == MkVal("list", 0, <<>>, id, "", <<>>, items)
TupleV(id, items) == MkVal("tuple", 0, <<>>, id, "", <<>>, items)
\* A dict with string keys: keys[i] maps to items[i].
DictV(id, keys, items) == MkVal("dict", 0, <<>>, id, "", keys, items)

\* An exception leaving a call.
Raise(name) == MkVal("raise", 0, <<>>, 0, name, <<>>, <<>>)
IsRaise(r) == r.kind = "raise"

\* The three module-level markers are all the NoneType class.
INVALID == TypeV("NoneType")
AUTO == TypeV("NoneType")
DEFAULT == TypeV("NoneType")

\* ---------------------------------------------- Python built-in behaviour

IsNumber(v) == v.kind \in {"int", "float"}

\* iter(v) succeeds.
IsIterable(v) == v.kind \in {"list", "tuple", "str", "dict", "generator"}

\* The elements iter(v) yields, in order.
IterItems(v) ==
    CASE v.kind \in {"list", "tuple"} -> v.items
      [] v.kind = "str" -> [i \in 1..Len(v.s) |-> StrV(<<v.s[i]>>)]
      [] v.kind = "dict" -> [i \in 1..Len(v.keys) |-> StrV(<<v.keys[i]>>)]
      [] v.kind = "generator" -> v.items
      [] OTHER -> <<>>

\* (x for x in v): a generator, the single-pass view of an iterable.
GenOf(v) == MkVal("generator", 0, <<>>, 0, "", <<>>, IterItems(v))

\* a == b
RECURSIVE PyEq(_, _)
PyEq(a, b) ==
    CASE IsNumber(a) /\ IsNumber(b) -> a.n = b.n
      [] a.kind = "str" /\ b.kind = "str" -> a.s = b.s
      [] a.kind = "NoneType" /\ b.kind = "NoneType" -> TRUE
      [] a.kind = "type" /\ b.kind = "type" -> a.tname = b.tname
      [] a.kind = "obj" /\ b.kind = "obj" -> a.id = b.id
      [] a.kind \in {"list", "tuple"} /\ b.kind = a.kind ->
            /\ Len(a.items) = Len(b.items)
            /\ \A i \in 1..Len(a.items) : PyEq(a.items[i], b.items[i])
      [] a.kind = "dict" /\ b.kind = "dict" ->
            /\ {a.keys[i] : i \in 1..Len(a.keys)} = {b.keys[i] : i \in 1..Len(b.keys)}
            /\ \A i \in 1..Len(a.keys) : \A j \in 1..Len(b.keys) :
                  a.keys[i] = b.keys[j] => PyEq(a.items[i], b.items[j])
      [] OTHER -> FALSE

\* a is b
PyIs(a, b) == a = b

Digits == <<"0", "1", "2", "3", "4", "5", "6", "7", "8", "9">>
IsDigit(ch) == \E i \in 1..Len(Digits) : Digits[i] = ch
DigitVal(ch) == (CHOOSE i \in 1..Len(Digits) : Digits[i] = ch) - 1

\* The number a string of decimal digits denotes.
RECURSIVE ParseDigits(_)
ParseDigits(chars) ==
    IF chars = <<>> THEN 0
    ELSE 10 * ParseDigits(SubSeq(chars, 1, Len(chars) - 1))
         + DigitVal(chars[Len(chars)])

IsDigitString(chars) ==
    /\ chars # <<>>
    /\ \A i \in 1..Len(chars) : IsDigit(chars[i])

\* to_type(source): the single-argument constructor of a built-in type.
TypeCall(t, v) ==
    CASE t = "int" ->
            CASE v.kind = "int" -> v
              [] v.kind = "float" -> IntV(v.n)
              [] v.kind = "str" /\ IsDigitString(v.s) -> IntV(ParseDigits(v.s))
              [] v.kind = "str" -> Raise("ValueError")
              [] OTHER -> Raise("TypeError")
      [] t = "float" ->
            CASE v.kind = "float" -> v
              [] v.kind = "int" -> FloatV(v.n)
              [] v.kind = "str" /\ IsDigitString(v.s) -> FloatV(ParseDigits(v.s))
              [] v.kind = "str" -> Raise("ValueError")
              [] OTHER -> Raise("TypeError")
      [] t = "list" ->
            IF IsIterable(v) THEN ListV(0, IterItems(v)) ELSE Raise("TypeError")
      [] t = "tuple" ->
            CASE v.kind = "tuple" -> v
              [] IsIterable(v) -> TupleV(0, IterItems(v))
              [] OTHER -> Raise("TypeError")
      [] t = "type" -> TypeV(v.kind)
      [] OTHER -> Raise("TypeError")

\* isinstance(v, types)
IsInstance(v, types) == \E i \in 1..Len(types) : types[i] = v.kind

\* nominee[key] for a nominee that iteration was possible on.
GetItem(nominee, key) ==
    CASE nominee.kind = "dict" ->
            IF key.kind = "str" /\ Len(key.s) = 1
               /\ \E i \in 1..Len(nominee.keys) : nominee.keys[i] = key.s[1]
            THEN nominee.items[CHOOSE i \in 1..Len(nominee.keys) :
                                   nominee.keys[i] = key.s[1]]
            ELSE Raise("KeyError")
      [] nominee.kind \in {"list", "tuple"} ->
            IF key.kind # "int" THEN Raise("TypeError")
            ELSE IF key.n >= 0 /\ key.n < Len(nominee.items)
                 THEN nominee.items[key.n + 1]
            ELSE IF key.n < 0 /\ -key.n <= Len(nominee.items)
                 THEN nominee.items[Len(nominee.items) + key.n + 1]
            ELSE Raise("IndexError")
      [] OTHER -> Raise("TypeError")

\* hash(v) succeeds.
RECURSIVE IsHashable(_)
IsHashable(v) ==
    CASE v.kind \in {"list", "dict"} -> FALSE
      [] v.kind = "tuple" -> \A i \in 1..Len(v.items) : IsHashable(v.items[i])
      [] OTHER -> TRUE

\* ------------------------------------------- user-supplied functions

\* The predicates handed to FN: lt7 is lambda x: x < 7 (the materialized
\* BWC < 7), div0 is lambda x: x / 0.  "E": the call raises.
PredCall(f, v) ==
    CASE f = "lt7" -> IF IsNumber(v) THEN (IF v.n < 7 THEN "T" ELSE "F") ELSE "E"
      [] f = "div0" -> "E"
      [] OTHER -> "E"

\* The converters handed to INTO: int, and lambda x: min(x + 0, 5).
ConvCall(f, v) ==
    CASE f = "int" -> TypeCall("int", v)
      [] f = "min5" -> IF IsNumber(v)
                       THEN (IF v.n <= 5 THEN v ELSE IntV(5))
                       ELSE Raise("TypeError")
      [] OTHER -> Raise("TypeError")

\* ------------------------------------------------------------ constraints

MkCon(op, ts, vs, f, names, kids) ==
    [op |-> op, ts |-> ts, vs |-> vs, f |-> f, names |-> names, kids |-> kids]

\* A plain Python object standing where a constraint is expected (an
\* argument not yet passed through from_generic).
RAW(val) == MkCon("RAW", <<>>, <<val>>, "", <<>>, <<>>)

\* A plain dict standing where a constraint is expected: key names[i] maps
\* to kids[i].  The key DEFAULT (an object, not a name) is written DefaultKey.
RAWDICT(names, values) == MkCon("RAWDICT", <<>>, <<>>, "", names, values)
DefaultKey == "DEFAULT"

\* isinstance(obj, BWConstraint)
IsConstraint(obj) == obj.op \notin {"RAW", "RAWDICT"}

\* The class constructors (__init__ stores its arguments as given).
BWIsaConstraint(types) == MkCon("ISA", types, <<>>, "", <<>>, <<>>)
BWInConstraint(comparisons) == MkCon("IN", <<>>, comparisons, "", <<>>, <<>>)
BWIsConstraint(choices) == MkCon("IS", <<>>, choices, "", <<>>, <<>>)
BWFunctionConstraint(fn) == MkCon("FN", <<>>, <<>>, fn, <<>>, <<>>)
BWBareFunctionConstraint(fn) == MkCon("BARE_FN", <<>>, <<>>, fn, <<>>, <<>>)
BWConversionConstraint(fn) == MkCon("INTO", <<>>, <<>>, fn, <<>>, <<>>)
BWNotConstraint(constraint) == MkCon("NOT", <<>>, <<>>, "", <<>>, <<constraint>>)
BWManyInputConstraint(cls, constraints) ==
    MkCon(cls, <<>>, <<>>, "", <<>>, constraints)
\* kids[1] is the default constraint, kids[i + 1] the constraint of names[i].
BWDictionaryConstraint(default, names, constraints) ==
    MkCon("DICT", <<>>, <<>>, "", names, <<default>> \o constraints)

NEVER == MkCon("NEVER", <<>>, <<>>, "", <<>>, <<>>)
ALWAYS == MkCon("ALWAYS", <<>>, <<>>, "", <<>>, <<>>)

IsSequenceConstraint(c) == c.op = "SEQ"
CollectionOps == {"LIST", "TUPLE", "ARRAY"}
ManyInputOps == {"ANY", "ALL", "SEQ"} \cup CollectionOps

\* collection_types of the three collection classes.
CollectionTypes(op) ==
    CASE op = "LIST" -> <<"list">>
      [] op = "TUPLE" -> <<"tuple">>
      [] op = "ARRAY" -> <<"list", "tuple">>
      [] OTHER -> <<>>

\* BWConstraint.from_generic and BWManyInputConstraint.from_multi.
RECURSIVE from_generic(_)
from_multi(cls, seq) ==
    BWManyInputConstraint(cls, [i \in 1..Len(seq) |-> from_generic(seq[i])])

\* BWDictionaryConstraint.from_dict(*_default_constraint, **_kw): defaults
\* are the positional arguments, names[i] = values[i] the keyword arguments.
from_dict(defaults, names, values) ==
    LET default ==
            CASE Len(defaults) > 1 -> from_multi("ANY", defaults)
              [] Len(defaults) = 1 -> from_generic(defaults[1])
              [] Len(names) # 0 -> NEVER
              [] OTHER -> ALWAYS
    IN  BWDictionaryConstraint(default, names,
            [i \in 1..Len(values) |-> from_generic(values[i])])

\* The indices of a dict literal's entries other than the DEFAULT key, in
\* order: what is left of obj after obj.pop(DEFAULT, ...).
RECURSIVE PoppedIndices(_, _)
PoppedIndices(names, i) ==
    IF i > Len(names) THEN <<>>
    ELSE (IF names[i] = DefaultKey THEN <<>> ELSE <<i>>)
         \o PoppedIndices(names, i + 1)

\* A pop whose fallback follows from_dict's rule for keyword arguments.
PopDefaultNever(obj) ==
    IF \E i \in 1..Len(obj.names) : obj.names[i] = DefaultKey
    THEN obj.kids[CHOOSE i \in 1..Len(obj.names) : obj.names[i] = DefaultKey]
    ELSE IF Len(obj.names) # 0 THEN NEVER ELSE ALWAYS
\* obj.pop(DEFAULT, ALWAYS): the value popped.
PopDefault(obj) ==
    IF \E i \in 1..Len(obj.names) : obj.names[i] = DefaultKey
    THEN obj.kids[CHOOSE i \in 1..Len(obj.names) : obj.names[i] = DefaultKey]
    ELSE ALWAYS

\* The dict literal after obj.pop(DEFAULT, ALWAYS).
Popped(obj) ==
    LET idx == PoppedIndices(obj.names, 1) IN
    RAWDICT([k \in 1..Len(idx) |-> obj.names[idx[k]]],
            [k \in 1..Len(idx) |-> obj.kids[idx[k]]])

from_generic(obj) ==
    IF obj.op = "RAWDICT"
    THEN from_dict(<<PopDefault(obj)>>, Popped(obj).names, Popped(obj).kids)
    ELSE IF obj.op # "RAW" THEN obj
    ELSE LET o == obj.vs[1] IN
         CASE o.kind = "list" ->
                 from_multi("ARRAY", [i \in 1..Len(o.items) |-> RAW(o.items[i])])
           [] o.kind = "tuple" ->
                 from_multi("SEQ", [i \in 1..Len(o.items) |-> RAW(o.items[i])])
           [] o.kind = "type" -> BWIsaConstraint(<<o.tname>>)
           [] OTHER -> BWInConstraint(<<o>>)

\* The registered factories.
ISA(types) == BWIsaConstraint(types)
\* IN is a reserved word of TLA+.
IN_(values) == BWInConstraint(values)
IS(values) == BWIsConstraint(values)
FN(f) == BWFunctionConstraint(f)
INTO(f) == BWConversionConstraint(f)
NOT(constraint) == BWNotConstraint(constraint)
ANY(seq) == from_multi("ANY", seq)
ALL(seq) == from_multi("ALL", seq)
SEQ(seq) == from_multi("SEQ", seq)
LIST(seq) == from_multi("LIST", seq)
TUPLE(seq) == from_multi("TUPLE", seq)
ARRAY(seq) == from_multi("ARRAY", seq)
DICT(defaults, names, values) == from_dict(defaults, names, values)
\* DICT() with no argument at all.
DICT0 == BWDictionaryConstraint(ALWAYS, <<>>, <<>>)

\* ------------------------------------------------------------------ check

RECURSIVE check(_, _), convert(_, _, _)

\* sub in text, for two str objects.
IsSubstring(sub, text) ==
    \E k \in 0..Len(text) :
        /\ k + Len(sub) <= Len(text)
        /\ SubSeq(text, k + 1, k + Len(sub)) = sub

\* nominee in obj, for a plain Python object obj.
RawContains(o, nominee) ==
    CASE o.kind \in {"list", "tuple"} ->
            IF \E i \in 1..Len(o.items) : PyEq(nominee, o.items[i])
            THEN "T" ELSE "F"
      [] o.kind = "str" ->
            IF nominee.kind # "str" THEN "E"
            ELSE IF IsSubstring(nominee.s, o.s) THEN "T" ELSE "F"
      [] o.kind = "dict" ->
            IF ~IsHashable(nominee) THEN "E"
            ELSE IF /\ nominee.kind = "str" /\ Len(nominee.s) = 1
                    /\ \E i \in 1..Len(o.keys) : o.keys[i] = nominee.s[1]
                 THEN "T" ELSE "F"
      [] OTHER -> "E"

\* nominee in obj, for a plain dict obj: membership among its keys.
RawDictContains(names, nominee) ==
    IF ~IsHashable(nominee) THEN "E"
    ELSE IF \E i \in 1..Len(names) :
               \/ names[i] = DefaultKey /\ PyIs(nominee, DEFAULT)
               \/ /\ names[i] # DefaultKey
                  /\ nominee.kind = "str" /\ nominee.s = <<names[i]>>
         THEN "T" ELSE "F"

\* nominee in constraint: BWConstraint.__contains__ when constraint is one.
Contains(constraint, nominee) ==
    CASE constraint.op = "RAW" -> RawContains(constraint.vs[1], nominee)
      [] constraint.op = "RAWDICT" -> RawDictContains(constraint.names, nominee)
      [] OTHER -> check(constraint, nominee)

\* BWBareFunctionConstraint.check
BareFnCheck(f, nominee) == PredCall(f, nominee)

\* BWFunctionConstraint.check: try ... except: return False
FnCheckNoTry(f, nominee) == BareFnCheck(f, nominee)
FnCheck(f, nominee) ==
    IF BareFnCheck(f, nominee) = "E" THEN "F" ELSE BareFnCheck(f, nominee)

\* BWNotConstraint.check
NotCheck(constraint, nominee) ==
    LET r == Contains(constraint, nominee) IN
    CASE r = "E" -> "E"
      [] r = "T" -> "F"
      [] OTHER -> "T"

\* BWInConstraint.check: nominee in self.comparisons (identity, then ==).
InCheck(comparisons, nominee) ==
    IF \E i \in 1..Len(comparisons) :
          PyIs(nominee, comparisons[i]) \/ PyEq(nominee, comparisons[i])
    THEN "T" ELSE "F"

\* BWIsConstraint.check
IsCheck(choices, nominee) ==
    IF \E i \in 1..Len(choices) : PyIs(nominee, choices[i]) THEN "T" ELSE "F"

\* BWIsaConstraint.check
IsaCheck(types, nominee) == IF IsInstance(nominee, types) THEN "T" ELSE "F"

\* BWAnyConstraint.check_in: the for loop from child i on.
RECURSIVE AnyCheckLoop(_, _, _)
AnyCheckLoop(nominee, constraints, i) ==
    IF i > Len(constraints) THEN "F"
    ELSE LET r == Contains(constraints[i], nominee) IN
         CASE r = "E" -> "E"
           [] r = "T" -> "T"
           [] OTHER -> AnyCheckLoop(nominee, constraints, i + 1)

AnyCheckIn(nominee, constraints) ==
    IF Len(constraints) # 0 THEN AnyCheckLoop(nominee, constraints, 1)
    ELSE "T"

\* BWAllConstraint.check_in: the for loop from child i on.
RECURSIVE AllCheckLoop(_, _, _)
AllCheckLoop(nominee, constraints, i) ==
    IF i > Len(constraints) THEN "T"
    ELSE LET r == Contains(constraints[i], nominee) IN
         CASE r = "E" -> "E"
           [] r = "F" -> "F"
           [] OTHER -> AllCheckLoop(nominee, constraints, i + 1)

\* A loop that stops at the first child, whatever it says.
AllCheckFirstOnly(nominee, constraints) ==
    IF Len(constraints) # 0 THEN Contains(constraints[1], nominee) ELSE "T"
AllCheckIn(nominee, constraints) ==
    IF Len(constraints) # 0 THEN AllCheckLoop(nominee, constraints, 1)
    ELSE "T"

\* BWSequenceConstraint.check_in: constraint i is paired with item i.
RECURSIVE SeqCheckLoop(_, _, _)
SeqCheckLoop(items, constraints, i) ==
    IF i > Len(constraints)
    THEN IF Len(items) > Len(constraints) THEN "F"   \* Too many items
         ELSE "T"
    ELSE IF i > Len(items) THEN "F"                  \* Out of items
    ELSE LET r == Contains(constraints[i], items[i]) IN
         CASE r = "E" -> "E"
           [] r = "F" -> "F"
           [] OTHER -> SeqCheckLoop(items, constraints, i + 1)

\* A check_in that forgets the trailing "too many items" test.
SeqCheckInNoTail(nominee, constraints) ==
    IF ~IsIterable(nominee) THEN "F"
    ELSE SeqCheckLoop(SubSeq(IterItems(nominee), 1,
                             IF Len(IterItems(nominee)) < Len(constraints)
                             THEN Len(IterItems(nominee)) ELSE Len(constraints)),
                      constraints, 1)
SeqCheckIn(nominee, constraints) ==
    IF ~IsIterable(nominee) THEN "F"
    ELSE SeqCheckLoop(IterItems(nominee), constraints, 1)

\* getattr(constraint, 'check_all', None) is not None
HasCheckAll(constraint) == IsSequenceConstraint(constraint)

\* BWCollectionConstraint.check_in, first loop: "ok" when a check_all
\* accepted, "fail" when some were tried and none accepted, "none" when no
\* child has one, "E" when one raised.
RECURSIVE ProbeLoop(_, _, _, _)
ProbeLoop(nominee, constraints, i, check_all) ==
    IF i > Len(constraints) THEN (IF check_all THEN "fail" ELSE "none")
    ELSE IF HasCheckAll(constraints[i])
         THEN LET r == check(constraints[i], nominee) IN
              CASE r = "E" -> "E"
                [] r = "T" -> "ok"
                [] OTHER -> ProbeLoop(nominee, constraints, i + 1, TRUE)
         ELSE ProbeLoop(nominee, constraints, i + 1, check_all)

\* BWCollectionConstraint.check_in, inner loop over the constraints for one
\* item; its for-else returns check_all.
RECURSIVE ItemLoop(_, _, _, _)
ItemLoop(item, constraints, j, check_all) ==
    IF j > Len(constraints) THEN (IF check_all THEN "T" ELSE "F")
    ELSE IF HasCheckAll(constraints[j])
         THEN ItemLoop(item, constraints, j + 1, check_all)
         ELSE LET r == Contains(constraints[j], item) IN
              CASE r = "E" -> "E"
                [] r = "T" -> "T"
                [] OTHER -> ItemLoop(item, constraints, j + 1, check_all)

\* BWCollectionConstraint.check_in.  The outer loop over the items returns
\* while it is at the first item; with no item at all the method falls off
\* its end and returns None.
CollectionCheckIn(op, nominee, constraints) ==
    LET p == ProbeLoop(nominee, constraints, 1, FALSE) IN
    CASE p = "E" -> "E"
      [] p = "fail" -> "F"
      [] OTHER ->
           IF IsInstance(nominee, CollectionTypes(op))
           THEN IF Len(constraints) # 0
                THEN IF Len(nominee.items) = 0 THEN "F"
                     ELSE ItemLoop(nominee.items[1], constraints, 1, p = "ok")
                ELSE "T"
           ELSE "F"

\* self.key_constraints.get(key, default)
KeyConstraint(c, key) ==
    IF /\ key.kind = "str" /\ Len(key.s) = 1
       /\ \E i \in 1..Len(c.names) : c.names[i] = key.s[1]
    THEN c.kids[1 + CHOOSE i \in 1..Len(c.names) : c.names[i] = key.s[1]]
    ELSE c.kids[1]

\* BWDictionaryConstraint.check: the for loop from key i on.
RECURSIVE DictCheckLoop(_, _, _, _)
DictCheckLoop(c, nominee, keys, i) ==
    IF i > Len(keys) THEN "T"
    ELSE IF ~IsHashable(keys[i]) THEN "E"
    ELSE LET item == GetItem(nominee, keys[i]) IN
         IF IsRaise(item) THEN "E"
         ELSE LET r == Contains(KeyConstraint(c, keys[i]), item) IN
              CASE r = "E" -> "E"
                [] r = "F" -> "F"
                [] OTHER -> DictCheckLoop(c, nominee, keys, i + 1)

DictCheck(c, nominee) ==
    IF ~IsIterable(nominee) THEN "E"
    ELSE DictCheckLoop(c, nominee, IterItems(nominee), 1)

\* constraint.check(nominee), by class.
check(c, nominee) ==
    CASE c.op = "ISA" -> IsaCheck(c.ts, nominee)
      [] c.op = "IN" -> InCheck(c.vs, nominee)
      [] c.op = "IS" -> IsCheck(c.vs, nominee)
      [] c.op = "FN" -> FnCheck(c.f, nominee)
      [] c.op = "BARE_FN" -> BareFnCheck(c.f, nominee)
      [] c.op = "INTO" -> "F"
      [] c.op = "NEVER" -> "F"
      [] c.op = "ALWAYS" -> "T"
      [] c.op = "NOT" -> NotCheck(c.kids[1], nominee)
      [] c.op = "ANY" -> AnyCheckIn(nominee, c.kids)
      [] c.op = "ALL" -> AllCheckIn(nominee, c.kids)
      [] c.op = "SEQ" -> SeqCheckIn(nominee, c.kids)
      [] c.op \in CollectionOps -> CollectionCheckIn(c.op, nominee, c.kids)
      [] c.op = "DICT" -> DictCheck(c, nominee)
      [] OTHER -> "E"

\* ----------------------------------------------------- convert and coerce

\* BWIsaConstraint.convert: the for loop from type i on.
RECURSIVE IsaConvertLoop(_, _, _, _)
IsaConvertLoop(types, source, invalid, i) ==
    IF i > Len(types) THEN invalid
    ELSE IF IsRaise(TypeCall(types[i], source))
         THEN IsaConvertLoop(types, source, invalid, i + 1)
         ELSE TypeCall(types[i], source)

\* A convert that tries the types from the last one back.
IsaConvertBackwards(types, source, invalid) ==
    IsaConvertLoop([i \in 1..Len(types) |-> types[Len(types) + 1 - i]],
                   source, invalid, 1)
IsaConvert(types, source, invalid) == IsaConvertLoop(types, source, invalid, 1)

\* BWConversionConstraint.convert: try: return self.fn(source) except: invalid
IntoConvert(f, source, invalid) ==
    IF IsRaise(ConvCall(f, source)) THEN invalid ELSE ConvCall(f, source)

\* BWAnyConstraint.convert_in / BWAllConstraint.convert_in (the same text):
\* the for loop from child i on.  The test is against the module's INVALID,
\* not against the invalid argument.
RECURSIVE ConvertLoop(_, _, _, _, _)
ConvertLoop(self, source, constraints, invalid, i) ==
    IF i > Len(constraints) THEN invalid
    ELSE LET result == IF ~IsConstraint(constraints[i])
                       THEN Raise("AttributeError")
                       ELSE convert(constraints[i], source, invalid) IN
         IF IsRaise(result) THEN result
         ELSE IF PyIs(result, INVALID)
              THEN ConvertLoop(self, source, constraints, invalid, i + 1)
         ELSE LET ok == check(self, result) IN
              CASE ok = "E" -> Raise("Error")
                [] ok = "T" -> result
                [] OTHER -> ConvertLoop(self, source, constraints, invalid, i + 1)

\* A convert_in that returns the first conversion without checking it.
RECURSIVE ConvertLoopUnchecked(_, _, _, _, _)
ConvertLoopUnchecked(self, source, constraints, invalid, i) ==
    IF i > Len(constraints) THEN invalid
    ELSE LET result == IF constraints[i].op = "RAW" THEN Raise("AttributeError")
                       ELSE convert(constraints[i], source, invalid) IN
         IF IsRaise(result) THEN result
         ELSE IF PyIs(result, INVALID) \/ PyIs(result, invalid)
              THEN ConvertLoopUnchecked(self, source, constraints, invalid, i + 1)
         ELSE result

AnyConvertIn(self, source, constraints, invalid) ==
    ConvertLoop(self, source, constraints, invalid, 1)

AllConvertInUnchecked(self, source, constraints, invalid) ==
    ConvertLoopUnchecked(self, source, constraints, invalid, 1)
AllConvertIn(self, source, constraints, invalid) ==
    ConvertLoop(self, source, constraints, invalid, 1)

\* constraint.convert(source, invalid), by class.  BWManyInputConstraint's
\* convert calls self.convert_in, which the sequence and the collection
\* classes do not define.
convert(c, source, invalid) ==
    CASE c.op = "ISA" -> IsaConvert(c.ts, source, invalid)
      [] c.op = "INTO" -> IntoConvert(c.f, source, invalid)
      [] c.op = "ALWAYS" -> source
      [] c.op = "NEVER" -> invalid
      [] c.op = "ANY" -> AnyConvertIn(c, source, c.kids, invalid)
      [] c.op = "ALL" -> AllConvertIn(c, source, c.kids, invalid)
      [] c.op \in {"SEQ"} \cup CollectionOps -> Raise("AttributeError")
      [] OTHER -> invalid

\* BWConstraint.coerce.  out: what the call returns; conv: whether it
\* called convert.
CoerceNoCheck(c, source, invalid) ==
    [out |-> convert(c, source, invalid), conv |-> TRUE]
coerce(c, source, invalid) ==
    LET ok == check(c, source) IN
    CASE ok = "E" -> [out |-> Raise("Error"), conv |-> FALSE]
      [] ok = "T" -> [out |-> source, conv |-> FALSE]
      [] OTHER -> [out |-> convert(c, source, invalid), conv |-> TRUE]

\* BWConstraint.__lshift__ (and __rrshift__)
lshift(c, source) ==
    LET result == coerce(c, source, INVALID).out IN
    IF IsRaise(result) THEN result
    ELSE IF PyIs(result, INVALID) THEN Raise("CannotConvert")
    ELSE result

\* BWConstraint.__getitem__: the loop over a tuple of checks from item i on.
RECURSIVE GetItemLoop(_, _, _)
GetItemLoop(c, checks, i) ==
    IF i > Len(checks.items) THEN checks
    ELSE LET ok == check(c, checks.items[i]) IN
         CASE ok = "E" -> Raise("Error")
           [] ok = "F" -> Raise("NotValid")
           [] OTHER -> GetItemLoop(c, checks, i + 1)

\* A __getitem__ that takes every argument as one value.
getitemWhole(c, checks) ==
    LET ok == check(c, checks) IN
    CASE ok = "E" -> Raise("Error")
      [] ok = "F" -> Raise("NotValid")
      [] OTHER -> checks
getitem(c, checks) ==
    IF checks.kind = "tuple" THEN GetItemLoop(c, checks, 1)
    ELSE LET ok == check(c, checks) IN
         CASE ok = "E" -> Raise("Error")
           [] ok = "F" -> Raise("NotValid")
           [] OTHER -> checks

\* ----------------------------------------------------------------- filter

\* The generator (item for item in src if item in self), run from item i on:
\* kept: what it yields; err: whether a check raised and ended it.
RECURSIVE FilterLoop(_, _, _, _)
FilterLoop(c, items, i, want) ==
    IF i > Len(items) THEN [kept |-> <<>>, err |-> FALSE]
    ELSE LET ok == check(c, items[i]) IN
         IF ok = "E" THEN [kept |-> <<>>, err |-> TRUE]
         ELSE LET rest == FilterLoop(c, items, i + 1, want) IN
              IF ok = want
              THEN [kept |-> <<items[i]>> \o rest.kept, err |-> rest.err]
              ELSE rest

\* filtration(src, srctype, AUTO): list and tuple sources are rebuilt at
\* once (set and frozenset too, which the model has no values of); any
\* other source gets the generator back, not yet run.
filtration(run, srctype) ==
    CASE srctype = "list" ->
            IF run.err THEN Raise("Error") ELSE ListV(0, run.kept)
      [] srctype = "tuple" ->
            IF run.err THEN Raise("Error") ELSE TupleV(0, run.kept)
      [] OTHER ->
            MkVal("generator", 0, <<>>, 0, IF run.err THEN "Error" ELSE "",
                  <<>>, run.kept)

\* BWConstraint.filter / filter_out; a source that cannot be iterated
\* raises when the generator expression is created.
filter(c, src) ==
    IF ~IsIterable(src) THEN Raise("TypeError")
    ELSE filtration(FilterLoop(c, IterItems(src), 1, "T"), src.kind)

filter_out(c, src) ==
    IF ~IsIterable(src) THEN Raise("TypeError")
    ELSE filtration(FilterLoop(c, IterItems(src), 1, "F"), src.kind)

\* ------------------------------------------------------ sequence algebra

\* BWSequenceConstraint.__radd__: type(self)(*((other,) + self.constraints))
SeqRadd(self, other) == BWManyInputConstraint("SEQ", <<other>> \o self.kids)

\* BWSequenceConstraint.__add__
SeqAddNested(self, other) ==
    BWManyInputConstraint("SEQ", self.kids \o <<other>>)
SeqAdd(self, other) ==
    IF IsSequenceConstraint(other)
    THEN BWManyInputConstraint("SEQ", self.kids \o other.kids)
    ELSE BWManyInputConstraint("SEQ", self.kids \o <<other>>)

\* BWConstraint.__add__
ConAdd(self, other) ==
    IF IsSequenceConstraint(other) THEN SeqRadd(other, self)
    ELSE SEQ(<<self, other>>)

\* self + other, dispatched on the class of self.
add(self, other) ==
    IF IsSequenceConstraint(self) THEN SeqAdd(self, other)
    ELSE ConAdd(self, other)

\* BWConstraint.__or__, __and__ and __invert__
or(self, other) == ANY(<<self, other>>)
and(self, other) == ALL(<<self, other>>)
invert(self) == NOT(self)

\* BWConstraint.__mul__ and __rmul__: SEQ(*(self,) * count)
mul(self, count) == SEQ([i \in 1..count |-> self])
rmul(self, count) == SEQ([i \in 1..count |-> self])

\* -------------------------------------------------- the inputs of the model

\* All sequences over S of length at most n.
SeqsUpTo(S, n) == UNION {[1..k -> S] : k \in 0..n}

Elems == {IntV(5), StrV(<<"x">>)}

Atoms ==
    {IntV(5), IntV(8), FloatV(5), StrV(<<"5">>), StrV(<<"8">>), StrV(<<"x">>),
     NoneV, INVALID, ObjV(1)}

\* The key orders of the dict candidates: no key, one, or both of x and y.
DictKeys == {<<>>, <<"x">>, <<"y">>, <<"x", "y">>, <<"y", "x">>}

Dicts == UNION {{DictV(1, k, s) : s \in [1..Len(k) -> Elems]} : k \in DictKeys}

Values ==
    Atoms
    \cup {ListV(1, s) : s \in SeqsUpTo(Elems, MaxLen)}
    \cup {TupleV(1, s) : s \in SeqsUpTo(Elems, MaxLen)}
    \cup Dicts

\* The invalid markers a caller passes: coerce's default None, and INVALID.
Markers == {NoneV, INVALID}

Leaves ==
    {ISA(<<"int">>), ISA(<<"int", "float">>), ISA(<<"tuple", "list">>),
     IN_(<<IntV(5)>>), IS(<<ObjV(1)>>),
     FN("lt7"), FN("div0"), BWBareFunctionConstraint("lt7"),
     INTO("int"), INTO("min5"), ALWAYS, NEVER, DICT0}

\* Arguments handed to NOT(...), which stores its argument as given.
NotArgs ==
    Leaves \cup {RAW(IntV(5)), RAW(StrV(<<"x">>)), RAW(ListV(1, <<IntV(5)>>))}

\* Arguments handed to ANY(...) and ALL(...): literals and constraints.
LogicArgs ==
    {RAW(TypeV("int")), RAW(TypeV("type")), RAW(IntV(5)), FN("lt7"),
     INTO("int"), DICT0}

\* Arguments handed to SEQ(...).
SeqArgs == {RAW(TypeV("int")), RAW(StrV(<<"x">>)), ALWAYS, DICT0}

\* Arguments handed to LIST(...), TUPLE(...) and ARRAY(...).
CollArgs ==
    {RAW(TypeV("int")), RAW(StrV(<<"x">>)), SEQ(<<>>), SEQ(<<RAW(TypeV("int"))>>),
     SEQ(<<DICT0>>)}

SeqCons == {SEQ(a) : a \in SeqsUpTo(SeqArgs, MaxKids)}

\* DICT(...) calls: no default, one, or two; no keyword or x=...
DictDefaults == {<<>>, <<ALWAYS>>, <<RAW(TypeV("int"))>>,
                 <<RAW(TypeV("int")), RAW(StrV(<<"x">>))>>}
DictCons ==
    {DICT(d, <<>>, <<>>) : d \in DictDefaults}
    \cup {DICT(d, <<"x">>, <<a>>) :
             d \in DictDefaults, a \in {RAW(TypeV("int")), DICT0}}

\* Plain dicts handed to the resolver: {}, {'x': int},
\* {DEFAULT: NEVER, 'x': int} and {'x': int, DEFAULT: int}.
DictLiterals ==
    {RAWDICT(<<>>, <<>>),
     RAWDICT(<<"x">>, <<RAW(TypeV("int"))>>),
     RAWDICT(<<DefaultKey, "x">>, <<NEVER, RAW(TypeV("int"))>>),
     RAWDICT(<<"x", DefaultKey>>, <<RAW(TypeV("int")), RAW(TypeV("int"))>>)}

Constraints ==
    Leaves
    \cup {NOT(l) : l \in NotArgs}
    \cup {ANY(a) : a \in SeqsUpTo(LogicArgs, MaxKids)}
    \cup {ALL(a) : a \in SeqsUpTo(LogicArgs, MaxKids)}
    \cup SeqCons
    \cup {LIST(a) : a \in SeqsUpTo(CollArgs, MaxKids)}
    \cup {TUPLE(a) : a \in SeqsUpTo(CollArgs, MaxKids)}
    \cup {ARRAY(a) : a \in SeqsUpTo(CollArgs, MaxKids)}
    \cup DictCons

\* Operands of + and *.
AddLeft ==
    {ISA(<<"int">>), ALWAYS} \cup {q \in SeqCons : Len(q.kids) < MaxKids}
AddRight ==
    {IN_(<<StrV(<<"x">>)>>), SEQ(<<>>), SEQ(<<RAW(TypeV("int")), ALWAYS>>)}
\* Right operands of +, | and & that are plain objects, and one constraint.
Operands == {RAW(IntV(5)), RAW(TypeV("int")), IN_(<<StrV(<<"x">>)>>)}

\* What filter and filter_out are handed for a value v: v itself, or a
\* generator over it.
Sources(x) == {x} \cup (IF IsIterable(x) THEN {GenOf(x)} ELSE {})

\* ---------------------------------------------- the symbolic builder (BWC)

\* A BWConstraintGenerator: a str (text, as tokens) with an instance __dict__
\* whose entry ___BWCONSTRAINT___ is cache (0: no entry, k: fns[k]).
BWConstraintGenerator(text) == [text |-> text, cache |-> 0]
BWC == BWConstraintGenerator(<<"#">>)

\* The operations applied to nodes: node < 7, node + 5, node == '#' and
\* node == X() (an operand whose repr is no expression).
NodeOps == {<<"<", "7">>, <<"+", "5">>, <<"==", "'#'">>, <<"==", "<obj>">>}

\* __lt__, __add__, __eq__: BWConstraintGenerator('(%r) < (%r)' % (self, other))
BinaryNode(self, o) ==
    BWConstraintGenerator(<<"(">> \o self.text \o <<")", o[1], "(", o[2], ")">>)

\* str.replace(self, '#', '____'), token by token; a quoted '#' is replaced
\* like any other.
Replaced(text) ==
    [i \in 1..Len(text) |->
        CASE text[i] = "#" -> "____"
          [] text[i] = "'#'" -> "'____'"
          [] OTHER -> text[i]]

\* Whether eval('lambda ____:' + text) compiles.
Compiles(text) == \A i \in 1..Len(text) : text[i] # "<obj>"

BoolV(b) == MkVal("bool", IF b THEN 1 ELSE 0, <<>>, 0, "", <<>>, <<>>)

\* The value a literal token denotes.
Literal(tok) ==
    CASE tok = "7" -> IntV(7)
      [] tok = "5" -> IntV(5)
      [] tok = "'#'" -> StrV(<<"#">>)
      [] tok = "'____'" -> StrV(<<"_", "_", "_", "_">>)
      [] OTHER -> Raise("SyntaxError")

\* a < b, a + b, a == b on the values the nodes meet.
BinaryOp(o, a, b) ==
    LET num == {"int", "float", "bool"} IN
    CASE o = "<" ->
            IF a.kind \in num /\ b.kind \in num THEN BoolV(a.n < b.n)
            ELSE Raise("TypeError")
      [] o = "+" ->
            IF a.kind \in num /\ b.kind \in num
            THEN (IF "float" \in {a.kind, b.kind} THEN FloatV(a.n + b.n)
                  ELSE IntV(a.n + b.n))
            ELSE Raise("TypeError")
      [] o = "==" ->
            IF a.kind \in num /\ b.kind \in num THEN BoolV(a.n = b.n)
            ELSE BoolV(PyEq(a, b))
      [] OTHER -> Raise("TypeError")

\* The lambda compiled from a text: its value on x.
RECURSIVE Lambda(_, _)
Lambda(text, x) ==
    IF Len(text) = 1 THEN (IF text[1] = "____" THEN x ELSE Literal(text[1]))
    ELSE LET left == Lambda(SubSeq(text, 2, Len(text) - 5), x) IN
         IF IsRaise(left) THEN left
         ELSE BinaryOp(text[Len(text) - 3], left, Literal(text[Len(text) - 1]))

\* bool(x)
Truthy(x) ==
    CASE x.kind \in {"int", "float", "bool"} -> x.n # 0
      [] x.kind = "str" -> x.s # <<>>
      [] x.kind \in {"list", "tuple"} -> x.items # <<>>
      [] x.kind = "dict" -> x.keys # <<>>
      [] x.kind = "NoneType" -> FALSE
      [] OTHER -> TRUE

\* nominee in fn, for a materialized FN: BWFunctionConstraint.check turns a
\* raise into False, and "in" reduces the result to a bool.
NodeFnCheck(fn, nominee) ==
    LET r == Lambda(fn.src, nominee) IN
    IF IsRaise(r) THEN "F" ELSE IF Truthy(r) THEN "T" ELSE "F"

\* A __pos__ that builds the FN anew on every call.
GeneratorPosUncached(n, made) ==
    IF ~Compiles(n.text) THEN [ret |-> 0, node |-> n, fns |-> made]
    ELSE [ret |-> Len(made) + 1,
          node |-> [n EXCEPT !.cache = Len(made) + 1],
          fns |-> Append(made, [name |-> n.text, src |-> Replaced(n.text)])]
\* BWConstraintGenerator.__pos__ on node n when made are the FN instances
\* so far: ret is the instance returned (0: eval raised), node and fns are
\* the node and the instances after the call.
GeneratorPos(n, made) ==
    IF n.cache # 0 THEN [ret |-> n.cache, node |-> n, fns |-> made]
    ELSE IF ~Compiles(n.text) THEN [ret |-> 0, node |-> n, fns |-> made]
    ELSE [ret |-> Len(made) + 1,
          node |-> [n EXCEPT !.cache = Len(made) + 1],
          fns |-> Append(made, [name |-> n.text, src |-> Replaced(n.text)])]

\* The values checked against nodes.
NodeValues == {IntV(5), StrV(<<"#">>)}

\* -------------------------------------------------------- the state machine

VARIABLES
    c,      \* the constraint under test (a plain dict until resolved)
    v,      \* the candidate value
    built,  \* how c was made: [how, lhs, rhs, count]
    op,     \* the operation last applied to (c, v); "new" before any
    chk,    \* the result of check ("-" when op is not check)
    out,    \* the value returned, or Raise(..) (Nothing when op is check)
    conv,   \* whether coerce called convert
    inv,    \* the invalid marker passed to convert / coerce
    src,    \* the source handed to filter / filter_out (Nothing otherwise)
    nodes,  \* the BWConstraintGenerator objects: [text, cache]
    fns,    \* the FN instances made by materializing nodes: [name, src]
    last,   \* the last operation on a node: [op, node, arg, before, ret, res]
    threads \* each thread's call of +node: [pc, node, seen, made, ret]

vars == <<c, v, built, op, chk, out, conv, inv, src, nodes, fns, last, threads>>

Nothing == MkVal("nothing", 0, <<>>, 0, "", <<>>, <<>>)

\* last before any operation on a node.
\* The threads that call +node.
Threads == 1..MaxThreads
\* A thread that has not called yet.
Idle == [pc |-> "idle", node |-> 0, seen |-> 0, made |-> 0, ret |-> 0]
NoThreads == [t \in Threads |-> Idle]

NoLast == [op |-> "none", node |-> 0, arg |-> Nothing, before |-> 0,
           ret |-> 0, res |-> "-"]

Init ==
    /\ c \in Constraints \cup DictLiterals
    /\ v \in Values
    /\ built = [how |-> "init", lhs |-> NEVER, rhs |-> NEVER, count |-> 0]
    /\ op = "new"
    /\ chk = "-"
    /\ out = Nothing
    /\ conv = FALSE
    /\ inv = NoneV
    /\ src = Nothing
    /\ nodes = <<BWC>>
    /\ fns = <<>>
    /\ last = NoLast
    /\ threads = NoThreads

\* v in c
Check ==
    /\ op = "new"
    /\ IsConstraint(c)
    /\ op' = "check"
    /\ chk' = check(c, v)
    /\ UNCHANGED <<c, v, built, out, conv, inv, src, nodes, fns, last>>
    /\ UNCHANGED threads

\* c.convert(v, m)
Convert ==
    /\ op = "new"
    /\ IsConstraint(c)
    /\ \E m \in Markers :
          /\ inv' = m
          /\ out' = (IF c.op = "RAW" THEN Raise("AttributeError")
                     ELSE convert(c, v, m))
    /\ op' = "convert"
    /\ UNCHANGED <<c, v, built, chk, conv, src, nodes, fns, last>>
    /\ UNCHANGED threads

\* c.coerce(v, m)
Coerce ==
    /\ op = "new"
    /\ IsConstraint(c)
    /\ \E m \in Markers :
          /\ inv' = m
          /\ out' = coerce(c, v, m).out
          /\ conv' = coerce(c, v, m).conv
    /\ op' = "coerce"
    /\ UNCHANGED <<c, v, built, chk, src, nodes, fns, last>>
    /\ UNCHANGED threads

\* c << v
Lshift ==
    /\ op = "new"
    /\ IsConstraint(c)
    /\ op' = "lshift"
    /\ out' = lshift(c, v)
    /\ inv' = INVALID
    /\ UNCHANGED <<c, v, built, chk, conv, src, nodes, fns, last>>
    /\ UNCHANGED threads

\* c[v]
Protect ==
    /\ op = "new"
    /\ IsConstraint(c)
    /\ op' = "getitem"
    /\ out' = getitem(c, v)
    /\ UNCHANGED <<c, v, built, chk, conv, inv, src, nodes, fns, last>>
    /\ UNCHANGED threads

\* c.filter(v)
Filter ==
    /\ op = "new"
    /\ IsConstraint(c)
    /\ op' = "filter"
    /\ \E s \in Sources(v) :
          /\ src' = s
          /\ out' = filter(c, s)
    /\ UNCHANGED <<c, v, built, chk, conv, inv, nodes, fns, last>>
    /\ UNCHANGED threads

\* c.filter_out(v)
FilterOut ==
    /\ op = "new"
    /\ IsConstraint(c)
    /\ op' = "filter_out"
    /\ \E s \in Sources(v) :
          /\ src' = s
          /\ out' = filter_out(c, s)
    /\ UNCHANGED <<c, v, built, chk, conv, inv, nodes, fns, last>>
    /\ UNCHANGED threads

\* c + d
Add ==
    /\ op = "new"
    /\ IsConstraint(c)
    /\ built.how = "init"
    /\ c \in AddLeft
    /\ \E d \in AddRight \cup AddLeft :
          /\ c' = add(c, d)
          /\ built' = [how |-> "add", lhs |-> c, rhs |-> d, count |-> 0]
    /\ UNCHANGED <<v, op, chk, out, conv, inv, src, nodes, fns, last>>
    /\ UNCHANGED threads

\* c * n
Mul ==
    /\ op = "new"
    /\ IsConstraint(c)
    /\ built.how = "init"
    /\ c \in AddLeft
    /\ \E n \in 0..MaxCount :
          /\ c' = mul(c, n)
          /\ built' = [how |-> "mul", lhs |-> c, rhs |-> NEVER, count |-> n]
    /\ UNCHANGED <<v, op, chk, out, conv, inv, src, nodes, fns, last>>
    /\ UNCHANGED threads

\* n * c
Rmul ==
    /\ op = "new"
    /\ IsConstraint(c)
    /\ built.how = "init"
    /\ c \in AddLeft
    /\ \E n \in 0..MaxCount :
          /\ c' = rmul(c, n)
          /\ built' = [how |-> "rmul", lhs |-> c, rhs |-> NEVER, count |-> n]
    /\ UNCHANGED <<v, op, chk, out, conv, inv, src, nodes, fns, last>>
    /\ UNCHANGED threads

\* c + d for a right operand that may be a plain object
AddLiteral ==
    /\ op = "new"
    /\ IsConstraint(c)
    /\ built.how = "init"
    /\ c \in AddLeft
    /\ \E d \in Operands :
          /\ c' = add(c, d)
          /\ built' = [how |-> "addlit", lhs |-> c, rhs |-> d, count |-> 0]
    /\ UNCHANGED <<v, op, chk, out, conv, inv, src, nodes, fns, last>>
    /\ UNCHANGED threads

\* c | d
Or ==
    /\ op = "new"
    /\ IsConstraint(c)
    /\ built.how = "init"
    /\ c \in AddLeft
    /\ \E d \in Operands :
          /\ c' = or(c, d)
          /\ built' = [how |-> "or", lhs |-> c, rhs |-> d, count |-> 0]
    /\ UNCHANGED <<v, op, chk, out, conv, inv, src, nodes, fns, last>>
    /\ UNCHANGED threads

\* c & d
And ==
    /\ op = "new"
    /\ IsConstraint(c)
    /\ built.how = "init"
    /\ c \in AddLeft
    /\ \E d \in Operands :
          /\ c' = and(c, d)
          /\ built' = [how |-> "and", lhs |-> c, rhs |-> d, count |-> 0]
    /\ UNCHANGED <<v, op, chk, out, conv, inv, src, nodes, fns, last>>
    /\ UNCHANGED threads

\* ~c
Invert ==
    /\ op = "new"
    /\ IsConstraint(c)
    /\ built.how = "init"
    /\ c \in AddLeft
    /\ c' = invert(c)
    /\ built' = [how |-> "invert", lhs |-> c, rhs |-> NEVER, count |-> 0]
    /\ UNCHANGED <<v, op, chk, out, conv, inv, src, nodes, fns, last>>
    /\ UNCHANGED threads

\* CHECK(c) for a plain dict c: the resolver makes the constraint; rhs is
\* the dict as the call leaves it.
Resolve ==
    /\ op = "new"
    /\ built.how = "init"
    /\ c.op = "RAWDICT"
    /\ c' = from_generic(c)
    /\ built' = [how |-> "resolve", lhs |-> c, rhs |-> Popped(c), count |-> 0]
    /\ UNCHANGED <<v, op, chk, out, conv, inv, src, nodes, fns, last>>
    /\ UNCHANGED threads

Next ==
    \/ Check
    \/ Convert
    \/ Coerce
    \/ Lshift
    \/ Protect
    \/ Filter
    \/ FilterOut
    \/ Add
    \/ Mul
    \/ Rmul
    \/ Resolve
    \/ AddLiteral
    \/ Or
    \/ And
    \/ Invert

Spec == Init /\ [][Next]_vars

\* ----------------------------------------- the state machine of the builder

InitBWC ==
    /\ c = NEVER
    /\ v = NoneV
    /\ built = [how |-> "init", lhs |-> NEVER, rhs |-> NEVER, count |-> 0]
    /\ op = "new"
    /\ chk = "-"
    /\ out = Nothing
    /\ conv = FALSE
    /\ inv = NoneV
    /\ src = Nothing
    /\ nodes = <<BWC>>
    /\ fns = <<>>
    /\ last = NoLast
    /\ threads = NoThreads

\* nodes[i] < 7 and the like: a new node; the operand is left alone.
Build ==
    /\ Len(nodes) < MaxNodes
    /\ \E i \in 1..Len(nodes) : \E o \in NodeOps :
          /\ nodes' = Append(nodes, BinaryNode(nodes[i], o))
          /\ last' = [op |-> "build", node |-> i, arg |-> Nothing,
                      before |-> nodes[i].cache, ret |-> 0, res |-> "-"]
    /\ UNCHANGED <<c, v, built, op, chk, out, conv, inv, src, fns>>
    /\ UNCHANGED threads

\* +nodes[i]
Pos ==
    /\ \E i \in 1..Len(nodes) :
          LET r == GeneratorPos(nodes[i], fns) IN
          /\ nodes' = [nodes EXCEPT ![i] = r.node]
          /\ fns' = r.fns
          /\ last' = [op |-> "pos", node |-> i, arg |-> Nothing,
                      before |-> nodes[i].cache, ret |-> r.ret,
                      res |-> IF r.ret = 0 THEN "E" ELSE "-"]
    /\ UNCHANGED <<c, v, built, op, chk, out, conv, inv, src>>
    /\ UNCHANGED threads

\* x in nodes[i]: BWConstraintGenerator.__contains__
NodeContains ==
    /\ \E i \in 1..Len(nodes) : \E x \in NodeValues :
          LET r == GeneratorPos(nodes[i], fns) IN
          /\ nodes' = [nodes EXCEPT ![i] = r.node]
          /\ fns' = r.fns
          /\ last' = [op |-> "in", node |-> i, arg |-> x,
                      before |-> nodes[i].cache, ret |-> r.ret,
                      res |-> IF r.ret = 0 THEN "E"
                              ELSE NodeFnCheck(r.fns[r.ret], x)]
    /\ UNCHANGED <<c, v, built, op, chk, out, conv, inv, src>>
    /\ UNCHANGED threads

\* CHECK(nodes[i]): from_generic returns +obj for a node
ResolveNode ==
    /\ \E i \in 1..Len(nodes) :
          LET r == GeneratorPos(nodes[i], fns) IN
          /\ nodes' = [nodes EXCEPT ![i] = r.node]
          /\ fns' = r.fns
          /\ last' = [op |-> "resolve", node |-> i, arg |-> Nothing,
                      before |-> nodes[i].cache, ret |-> r.ret,
                      res |-> IF r.ret = 0 THEN "E" ELSE "-"]
    /\ UNCHANGED <<c, v, built, op, chk, out, conv, inv, src>>
    /\ UNCHANGED threads

\* +fns[k] and CHECK(fns[k]): BWConstraint.__pos__ and __call__ return self
PosConstraint ==
    /\ \E k \in 1..Len(fns) : \E how \in {"posfn", "resolvefn"} :
          last' = [op |-> how, node |-> k, arg |-> Nothing,
                   before |-> 0, ret |-> k, res |-> "-"]
    /\ UNCHANGED <<c, v, built, op, chk, out, conv, inv, src, nodes, fns>>
    /\ UNCHANGED threads

NextBWC ==
    \/ Build
    \/ Pos
    \/ NodeContains
    \/ ResolveNode
    \/ PosConstraint

SpecBWC == InitBWC /\ [][NextBWC]_vars

\* ------------------------------- the builder with threads calling __pos__

\* BWConstraintGenerator.__pos__ run by a thread, one step per statement;
\* another thread may run between any two of them.

\* constraint = self.__dict__.get('___BWCONSTRAINT___')
ThreadGet ==
    \E t \in Threads : \E i \in 1..Len(nodes) :
        /\ threads[t].pc = "idle"
        /\ threads' = [threads EXCEPT ![t] =
                          [pc |-> "got", node |-> i, seen |-> nodes[i].cache,
                           made |-> 0, ret |-> 0]]
        /\ UNCHANGED <<c, v, built, op, chk, out, conv, inv, src, nodes, fns, last>>

\* if constraint is None: (false) ... return constraint
ThreadReturnCached ==
    \E t \in Threads :
        /\ threads[t].pc = "got"
        /\ threads[t].seen # 0
        /\ threads' = [threads EXCEPT ![t].pc = "done", ![t].ret = threads[t].seen]
        /\ UNCHANGED <<c, v, built, op, chk, out, conv, inv, src, nodes, fns, last>>

\* if constraint is None: constraint = FN(eval('lambda ____:' + ...), str(self))
ThreadMake ==
    \E t \in Threads :
        /\ threads[t].pc = "got"
        /\ threads[t].seen = 0
        /\ IF Compiles(nodes[threads[t].node].text)
           THEN /\ fns' = Append(fns, [name |-> nodes[threads[t].node].text,
                                       src |-> Replaced(nodes[threads[t].node].text)])
                /\ threads' = [threads EXCEPT ![t].pc = "made",
                                              ![t].made = Len(fns) + 1]
           ELSE /\ fns' = fns
                /\ threads' = [threads EXCEPT ![t].pc = "raised"]
        /\ UNCHANGED <<c, v, built, op, chk, out, conv, inv, src, nodes, last>>

\* self.__dict__['___BWCONSTRAINT___'] = constraint; return constraint
ThreadStore ==
    \E t \in Threads :
        /\ threads[t].pc = "made"
        /\ nodes' = [nodes EXCEPT ![threads[t].node].cache = threads[t].made]
        /\ threads' = [threads EXCEPT ![t].pc = "done", ![t].ret = threads[t].made]
        /\ UNCHANGED <<c, v, built, op, chk, out, conv, inv, src, fns, last>>

NextThreads ==
    \/ Build
    \/ ThreadGet
    \/ ThreadReturnCached
    \/ ThreadMake
    \/ ThreadStore

SpecThreads == InitBWC /\ [][NextThreads]_vars

\* ------------------------------------------------------------- properties

\* C1: for every constraint c and value v, if check(c, v) is true then
\* coerce(c, v) returns v itself (the same object) and calls no conversion.
C1_CoerceKeepsValid ==
    (op = "coerce" /\ check(c, v) = "T") => (out = v /\ ~conv)

\* C1 happens: a list that already satisfies an ANY came back from coerce.
C1_Witness ==
    /\ op = "coerce"
    /\ c.op = "ANY" /\ Len(c.kids) = 2
    /\ check(c, v) = "T"
    /\ v.kind = "dict"
    /\ out = v

\* C2: c << v raises the conversion error only when convert yields the
\* invalid marker: a value that passes check comes back without a raise, and
\* a value that fails check raises exactly when convert(c, v) is the marker.
C2_LshiftRaisesOnlyOnInvalid ==
    op = "lshift" =>
        /\ check(c, v) = "T" => out = v
        /\ check(c, v) = "F" =>
              (out = Raise("CannotConvert") <=> convert(c, v, INVALID) = INVALID)

\* C3: check(ANY(children), v) is true iff the child list is empty or at
\* least one child's check accepts v.
C3_AnyCheckIff ==
    (op = "check" /\ c.op = "ANY") =>
        (chk = "T" <=>
            (Len(c.kids) = 0 \/ \E i \in 1..Len(c.kids) : check(c.kids[i], v) = "T"))

\* C4: check(ALL(children), v) is true iff every child's check accepts v
\* (true for the empty child list).
C4_AllCheckIff ==
    (op = "check" /\ c.op = "ALL") =>
        (chk = "T" <=> \A i \in 1..Len(c.kids) : check(c.kids[i], v) = "T")

\* C4 happens: an ALL of two children accepted, and one rejected because
\* of its second child alone.
C4_Witness ==
    /\ op = "check"
    /\ c.op = "ALL" /\ Len(c.kids) = 2
    /\ check(c.kids[1], v) = "T"
    /\ check(c.kids[2], v) = "F"
    /\ chk = "F"

\* C5: whenever coerce or convert of an ALL returns a value other than the
\* invalid marker, every child of the ALL accepts that value; so
\* ALL(ISA(int), lt7) coerces '5' to 5 and fails on '8'.
C5_AllConvertGated ==
    /\ (op \in {"coerce", "convert"} /\ c.op = "ALL" /\ ~IsRaise(out) /\ out # inv)
          => \A i \in 1..Len(c.kids) : check(c.kids[i], out) = "T"
    /\ (op = "coerce" /\ c = ALL(<<ISA(<<"int">>), FN("lt7")>>))
          => /\ v = StrV(<<"5">>) => out = IntV(5)
             /\ v = StrV(<<"8">>) => out = inv

\* C5 happens: ISA(int) converted '8' to 8 inside ALL(ISA(int), lt7), and
\* the ALL gave the invalid marker back.
C5_Witness ==
    /\ op = "coerce"
    /\ c = ALL(<<ISA(<<"int">>), FN("lt7")>>)
    /\ v = StrV(<<"8">>)
    /\ convert(c.kids[1], v, inv) = IntV(8)
    /\ out = inv

\* C6: check is total: for every constraint and every candidate it returns
\* true or false and never raises.
C6_CheckTotal == op = "check" => chk \in {"T", "F"}

\* C7: an exception inside the predicate of an FN makes its check false, an
\* exception inside the converter of an INTO makes its convert return the
\* invalid marker, and neither reaches the caller of check, coerce, filter
\* or protect.
C7_FnIntoContainErrors ==
    /\ (op = "check" /\ c.op = "FN" /\ PredCall(c.f, v) = "E") => chk = "F"
    /\ (op = "convert" /\ c.op = "INTO" /\ IsRaise(ConvCall(c.f, v))) => out = inv
    /\ (c.op \in {"FN", "INTO"} /\ op = "check") => chk # "E"
    /\ (c.op \in {"FN", "INTO"} /\ op \in {"coerce", "convert", "lshift", "getitem"})
          => out \notin {Raise("Error"), Raise("TypeError"), Raise("ValueError")}
    /\ (c.op \in {"FN", "INTO"} /\ op \in {"filter", "filter_out"} /\ IsIterable(v))
          => (~IsRaise(out) /\ out.tname = "")

\* C7 happens: the predicate raised on the candidate and check said false.
C7_Witness ==
    /\ op = "check"
    /\ c.op = "FN"
    /\ PredCall(c.f, v) = "E"
    /\ chk = "F"

\* What C8 says a sequence of children accepts: an iterable of exactly as
\* many elements as children, each accepted by the child at its position.
SeqAccepts(children, x) ==
    /\ IsIterable(x)
    /\ Len(IterItems(x)) = Len(children)
    /\ \A i \in 1..Len(children) : Contains(children[i], IterItems(x)[i]) = "T"

ExpectedKids ==
    CASE built.how = "add" ->
            (IF IsSequenceConstraint(built.lhs) THEN built.lhs.kids
             ELSE <<built.lhs>>)
            \o (IF IsSequenceConstraint(built.rhs) THEN built.rhs.kids
                ELSE <<built.rhs>>)
      [] built.how \in {"mul", "rmul"} -> [i \in 1..built.count |-> built.lhs]
      [] OTHER -> <<>>

\* C9: a + b is a SEQ whose children are those of a (a itself when a is no
\* SEQ) followed by those of b (b itself when b is no SEQ); c * n and n * c
\* are a SEQ of n copies of c; each checks like that SEQ written out, and
\* addition puts no SEQ among the children that was not a child before.
C9_SequenceAlgebra ==
    built.how \in {"add", "mul", "rmul"} =>
        /\ c.op = "SEQ"
        /\ c.kids = ExpectedKids
        /\ op = "check" => (chk = "T" <=> SeqAccepts(ExpectedKids, v))
        /\ built.how = "add" =>
              \A i \in 1..Len(c.kids) :
                  IsSequenceConstraint(c.kids[i]) =>
                      \/ /\ IsSequenceConstraint(built.lhs)
                         /\ \E j \in 1..Len(built.lhs.kids) : built.lhs.kids[j] = c.kids[i]
                      \/ /\ IsSequenceConstraint(built.rhs)
                         /\ \E j \in 1..Len(built.rhs.kids) : built.rhs.kids[j] = c.kids[i]

\* C9 happens: two sequences with children were added and the sum accepted
\* a candidate that has one element for each child of both.
C9_Witness ==
    /\ built.how = "add"
    /\ IsSequenceConstraint(built.lhs) /\ Len(built.lhs.kids) >= 1
    /\ IsSequenceConstraint(built.rhs) /\ Len(built.rhs.kids) >= 1
    /\ op = "check"
    /\ chk = "T"

\* C10: a collection constraint with one or more children, none of them a
\* whole-value probe, accepts a candidate of an accepted container kind iff
\* every element of the candidate is accepted by at least one child (so an
\* empty list is accepted, and [5, 'x'] is rejected by LIST(int)).
C10_CollectionEveryElement ==
    ( /\ op = "check"
      /\ c.op \in CollectionOps
      /\ Len(c.kids) >= 1
      /\ \A j \in 1..Len(c.kids) : ~HasCheckAll(c.kids[j])
      /\ IsInstance(v, CollectionTypes(c.op)) )
    => (chk = "T" <=>
           \A i \in 1..Len(v.items) :
               \E j \in 1..Len(c.kids) : check(c.kids[j], v.items[i]) = "T")

\* C11: LIST accepts only list candidates, TUPLE only tuple candidates,
\* ARRAY either; a candidate of another kind is rejected whatever the
\* children are (also when a whole-value probe accepts it), and with no
\* child at all check is true iff the candidate is of an accepted kind.
C11_ContainerKindGate ==
    (op = "check" /\ c.op \in CollectionOps) =>
        LET accepted ==
                \/ c.op = "LIST" /\ v.kind = "list"
                \/ c.op = "TUPLE" /\ v.kind = "tuple"
                \/ c.op = "ARRAY" /\ v.kind \in {"list", "tuple"}
        IN  /\ ~accepted => chk = "F"
            /\ Len(c.kids) = 0 => (chk = "T" <=> accepted)

\* The constraint C12 expects for a key of the candidate: the named
\* constraint when the key is named, else the default.
ExpectedKeyConstraint(default, names, values, key) ==
    IF \E i \in 1..Len(names) : names[i] = key
    THEN from_generic(values[CHOOSE i \in 1..Len(names) : names[i] = key])
    ELSE default

\* C12: DICT with named constraints and no default has default NEVER and
\* rejects every dict that has a key not named; DICT() has default ALWAYS
\* and accepts every dict; with an explicit default a dict is accepted iff
\* each key present satisfies its named constraint, or the default when it
\* is not named.
C12_DictDefaultRule ==
    \A d \in DictDefaults, n \in {<<>>, <<"x">>}, a \in {RAW(TypeV("int")), DICT0} :
        LET values == [i \in 1..Len(n) |-> a]
            default == IF Len(d) > 1 THEN ANY(d) ELSE from_generic(d[1])
        IN
        (c = DICT(d, n, values) /\ built.how = "init") =>
            /\ (d = <<>> /\ n # <<>>) =>
                  /\ c.kids[1] = NEVER
                  /\ ( /\ op = "check" /\ v.kind = "dict"
                       /\ \E i \in 1..Len(v.keys) :
                             \A j \in 1..Len(n) : v.keys[i] # n[j] )
                     => chk = "F"
            /\ (d = <<>> /\ n = <<>>) =>
                  /\ c.kids[1] = ALWAYS
                  /\ (op = "check" /\ v.kind = "dict") => chk = "T"
            /\ (d # <<>> /\ op = "check" /\ v.kind = "dict") =>
                  (chk = "T" <=>
                      \A i \in 1..Len(v.keys) :
                          check(ExpectedKeyConstraint(default, n, values, v.keys[i]),
                                v.items[i]) = "T")

\* Whether a dict literal has the DEFAULT key, and the value it maps to.
HasDefaultKey(lit) == \E i \in 1..Len(lit.names) : lit.names[i] = DefaultKey
UnderDefaultKey(lit) ==
    lit.kids[CHOOSE i \in 1..Len(lit.names) : lit.names[i] = DefaultKey]

\* C13 as claimed: resolving a plain dict gives a DICT whose default is the
\* constraint under the DEFAULT key when that key is present, and otherwise
\* NEVER when the literal names any key and ALWAYS when it is empty.
C13_LiteralDefaultPerDictRule ==
    built.how = "resolve" =>
        /\ c.op = "DICT"
        /\ c.kids[1] =
              (IF HasDefaultKey(built.lhs) THEN from_generic(UnderDefaultKey(built.lhs))
               ELSE IF Len(built.lhs.names) # 0 THEN NEVER
               ELSE ALWAYS)

\* C13 amended: resolving a plain dict gives a DICT whose default is the
\* constraint under the DEFAULT key when that key is present, and otherwise
\* ALWAYS, whether or not the literal names keys: each named entry is kept
\* as that key's constraint, and a dict with keys the literal does not name
\* is accepted when its named keys satisfy their constraints.
C13_LiteralDefaultAlways ==
    built.how = "resolve" =>
        LET lit == built.lhs IN
        /\ c.op = "DICT"
        /\ c.kids[1] =
              (IF HasDefaultKey(lit) THEN from_generic(UnderDefaultKey(lit))
               ELSE ALWAYS)
        /\ \A i \in 1..Len(lit.names) :
              lit.names[i] # DefaultKey =>
                  \E j \in 1..Len(c.names) :
                      /\ c.names[j] = lit.names[i]
                      /\ c.kids[j + 1] = from_generic(lit.kids[i])
        /\ (op = "check" /\ v.kind = "dict" /\ ~HasDefaultKey(lit)) =>
              (chk = "T" <=>
                  \A i \in 1..Len(v.keys) : \A j \in 1..Len(lit.names) :
                      lit.names[j] = v.keys[i] =>
                          check(from_generic(lit.kids[j]), v.items[i]) = "T")

\* C13 happens: {'x': int} was resolved and the constraint accepted a dict
\* that has the key y besides x.
C13_Witness ==
    /\ built.how = "resolve"
    /\ built.lhs = RAWDICT(<<"x">>, <<RAW(TypeV("int"))>>)
    /\ op = "check"
    /\ v.kind = "dict" /\ Len(v.keys) = 2
    /\ chk = "T"

\* C14: every materialization of a node (+node, x in node, CHECK(node))
\* returns the FN instance the first one made and leaves it in the node's
\* cache; +fn and CHECK(fn) of a materialized constraint return fn itself;
\* building a new node from a node leaves the operand's cache as it was.
C14_MaterializationCached ==
    /\ last.op \in {"pos", "in", "resolve"} =>
          /\ last.before # 0 => last.ret = last.before
          /\ last.ret # 0 => nodes[last.node].cache = last.ret
    /\ last.op \in {"posfn", "resolvefn"} => last.ret = last.node
    /\ last.op = "build" =>
          /\ nodes[last.node].cache = last.before
          /\ nodes[Len(nodes)].cache = 0

\* C14 happens: a node materialized before was used with "in" when another
\* FN instance existed too, and its own instance came back.
C14_Witness ==
    /\ last.op = "in"
    /\ last.before # 0
    /\ last.ret = last.before
    /\ Len(fns) >= 2
    /\ nodes[last.node].cache = last.before

\* C15 as claimed: c[v] for a single value v returns v when check(c, v) is
\* true and raises the validation error when it is false; c[t] for a
\* grouping t raises iff a member is not accepted and otherwise returns t;
\* and every value accepted by c, tuples included, is returned by c[v].
C15_ProtectAnyKind ==
    op = "getitem" =>
        /\ check(c, v) = "T" => out = v
        /\ (v.kind # "tuple" /\ check(c, v) = "F") => out = Raise("NotValid")
        /\ v.kind = "tuple" =>
              \/ IsRaise(out) /\ \E i \in 1..Len(v.items) : check(c, v.items[i]) # "T"
              \/ out = v /\ \A i \in 1..Len(v.items) : check(c, v.items[i]) = "T"
              \/ out = v /\ check(c, v) = "T"

\* C15 amended: c[v] for a value v that is no tuple returns v when
\* check(c, v) is true and raises the validation error when it is false; a
\* tuple is always taken as a grouping: c[t] raises iff a member of t is not
\* accepted by check (the validation error when its check is false) and
\* otherwise returns t, whatever check(c, t) says of t itself.
C15_ProtectTupleIsGrouping ==
    op = "getitem" =>
        /\ (v.kind # "tuple" /\ check(c, v) = "T") => out = v
        /\ (v.kind # "tuple" /\ check(c, v) = "F") => out = Raise("NotValid")
        /\ v.kind = "tuple" =>
              /\ IsRaise(out) <=> \E i \in 1..Len(v.items) : check(c, v.items[i]) # "T"
              /\ ~IsRaise(out) => out = v
              /\ (\A i \in 1..Len(v.items) : check(c, v.items[i]) \in {"T", "F"})
                    => out \in {v, Raise("NotValid")}

\* C15 happens: a tuple that c accepts as a value was handed to c[...],
\* which checked its members and raised the validation error.
C15_Witness ==
    /\ op = "getitem"
    /\ v.kind = "tuple" /\ Len(v.items) >= 1
    /\ check(c, v) = "T"
    /\ out = Raise("NotValid")

\* The elements of items that c accepts (keep) or does not accept (~keep),
\* in the order of items.
Accepted(con, items, keep) ==
    SelectSeq(items, LAMBDA o : (check(con, o) = "T") <=> keep)

\* C16: for a list, tuple or generator s, c.filter(s) yields exactly the
\* elements of s that check accepts and c.filter_out(s) exactly the others,
\* each in the order of s; a list or tuple gives a result of the same
\* container type and a generator gives a generator that runs to its end.
C16_FilterPartition ==
    (op \in {"filter", "filter_out"} /\ src.kind \in {"list", "tuple", "generator"}) =>
        /\ out.kind = src.kind
        /\ out.tname = ""
        /\ IterItems(out) = Accepted(c, IterItems(src), op = "filter")

\* C16 where no element's check raises.
C16_FilterPartitionNoRaise ==
    (/\ op \in {"filter", "filter_out"}
     /\ src.kind \in {"list", "tuple", "generator"}
     /\ \A i \in 1..Len(IterItems(src)) : check(c, IterItems(src)[i]) # "E") =>
        /\ out.kind = src.kind
        /\ out.tname = ""
        /\ IterItems(out) = Accepted(c, IterItems(src), op = "filter")

\* The walk C17 describes, from child i on: the conversion result r of the
\* first child with r is not m and check(self, r) true, else m.
RECURSIVE FirstQualifying(_, _, _, _)
FirstQualifying(self, source, m, i) ==
    IF i > Len(self.kids) THEN m
    ELSE LET r == convert(self.kids[i], source, m) IN
         IF ~PyIs(r, m) /\ check(self, r) = "T" THEN r
         ELSE FirstQualifying(self, source, m, i + 1)

\* C17: for every marker m, ANY.convert(v, m) returns the conversion result
\* r of the first child with r is not m and ANY.check(r) true, going on to
\* later children otherwise, and m when no child qualifies.  Stated where
\* no child's convert and no check of a result raises.
C17_AnyConvertCallerMarker ==
    (/\ op = "convert" /\ c.op = "ANY"
     /\ \A i \in 1..Len(c.kids) :
           /\ ~IsRaise(convert(c.kids[i], v, inv))
           /\ check(c, convert(c.kids[i], v, inv)) # "E")
        => out = FirstQualifying(c, v, inv, 1)

\* C18: for ALL(INTO(f), d) and a value v failing check, coerce returns
\* f(v) whenever f(v) does not raise and d accepts f(v), and the invalid
\* marker otherwise; INTO's check alone is false for every value.
C18_IntoInAllGated ==
    /\ (op = "check" /\ c.op = "INTO") => chk = "F"
    /\ (/\ op = "coerce" /\ c.op = "ALL" /\ Len(c.kids) = 2
        /\ c.kids[1].op = "INTO"
        /\ check(c, v) = "F")
          => LET r == ConvCall(c.kids[1].f, v) IN
             out = (IF ~IsRaise(r) /\ check(c.kids[2], r) = "T" THEN r ELSE inv)

\* C19: for a collection constraint and a candidate of an accepted kind,
\* if a child with a whole-value probe (a SEQ) accepts the whole candidate
\* then check is true, the empty collection matched by SEQ() included; if
\* probes were tried and none accepted, check is false.  Stated where check
\* does not raise.
C19_WholeValueProbe ==
    (/\ op = "check" /\ c.op \in CollectionOps
     /\ IsInstance(v, CollectionTypes(c.op))
     /\ chk # "E") =>
        LET probes == {j \in 1..Len(c.kids) : HasCheckAll(c.kids[j])} IN
        /\ (\E j \in probes : check(c.kids[j], v) = "T") => chk = "T"
        /\ (probes # {} /\ \A j \in probes : check(c.kids[j], v) = "F") => chk = "F"

\* Every child stored in con, at any depth, is a constraint object.
RECURSIVE ChildrenResolved(_)
ChildrenResolved(con) ==
    \A i \in 1..Len(con.kids) :
        IsConstraint(con.kids[i]) /\ ChildrenResolved(con.kids[i])

\* C20: every constructor and every composition operator resolves each of
\* its arguments, so every child stored in a composite constraint (built by
\* a constructor or by |, &, ~, + or *) is a constraint object.
C20_ChildrenAreConstraints ==
    IsConstraint(c) => ChildrenResolved(c)

\* C20 for the composites other than NOT and the results of + on a SEQ.
C20_ChildrenResolvedElsewhere ==
    (/\ IsConstraint(c) /\ c.op # "NOT"
     /\ ~(built.how \in {"add", "addlit"} /\ IsSequenceConstraint(c)))
        => ChildrenResolved(c)

\* C21: ISA.convert returns what the first listed type whose one-argument
\* constructor does not raise gives, whatever later types would give, and
\* the invalid marker when every constructor raises; so an ANY whose first
\* child is ISA(int) coerces a string of digits to that integer, and
\* ISA(int) cannot convert 'x'.
C21_IsaConvertFirstSuccess ==
    /\ (op = "convert" /\ c.op = "ISA") =>
          LET ok == {i \in 1..Len(c.ts) : ~IsRaise(TypeCall(c.ts[i], v))} IN
          IF ok = {} THEN out = inv
          ELSE out = TypeCall(c.ts[CHOOSE i \in ok : \A j \in ok : i <= j], v)
    /\ (/\ op = "coerce" /\ c.op = "ANY" /\ Len(c.kids) >= 1
        /\ c.kids[1] = ISA(<<"int">>)
        /\ v.kind = "str" /\ IsDigitString(v.s)
        /\ ~IsRaise(out))
          => out = IntV(ParseDigits(v.s))
    /\ (op \in {"convert", "coerce"} /\ c = ISA(<<"int">>) /\ v = StrV(<<"x">>))
          => out = inv

\* C21 happens: ISA(int, float) converted a value that float would have
\* converted to something else, and gave what int gives.
C21_Witness ==
    /\ op = "convert"
    /\ c = ISA(<<"int", "float">>)
    /\ v.kind = "str"
    /\ ~IsRaise(TypeCall("float", v))
    /\ TypeCall("float", v) # TypeCall("int", v)
    /\ out = TypeCall("int", v)

\* C22: when two threads materialize the same node, not materialized
\* before, at the same time, both get the same FN instance and at most one
\* FN instance is ever constructed for that node.
C22_ConcurrentMaterializeOnce ==
    \A t, u \in Threads :
        (t # u /\ threads[t].node # 0 /\ threads[t].node = threads[u].node) =>
            /\ (threads[t].pc = "done" /\ threads[u].pc = "done")
                  => threads[t].ret = threads[u].ret
            /\ ~(threads[t].made # 0 /\ threads[u].made # 0)

\* The recorded operation tree of a node evaluated on x as C23 describes:
\* x stands at the placeholder leaf and only there, every plain operand
\* keeps its literal value, and a failure gives a non-match.
TreeCheck(text, x) ==
    LET leafOnly == [i \in 1..Len(text) |->
                        IF text[i] = "#" THEN "____" ELSE text[i]]
        r == Lambda(leafOnly, x)
    IN  IF IsRaise(r) THEN "F" ELSE IF Truthy(r) THEN "T" ELSE "F"

\* C23: x in node, for a node whose text compiles, is what the recorded
\* tree gives with x at the placeholder leaf only: node == k is (x == k)
\* and (node + a) < b is (x + a < b), also when k is the string '#'.
C23_PlaceholderLeafOnly ==
    (last.op = "in" /\ last.ret # 0) =>
        last.res = TreeCheck(nodes[last.node].text, last.arg)

\* C23 for the nodes with no operand that is the string '#'.
C23_NoHashOperand ==
    (/\ last.op = "in" /\ last.ret # 0
     /\ \A i \in 1..Len(nodes[last.node].text) :
           nodes[last.node].text[i] # "'#'") =>
        last.res = TreeCheck(nodes[last.node].text, last.arg)

\* C24: resolving a dict literal leaves the literal as it was (the same
\* keys and values, the default pseudo-key included), and resolving the
\* same dict object again gives a constraint that checks every candidate
\* as the first one does.
C24_ResolveKeepsLiteral ==
    built.how = "resolve" =>
        /\ built.rhs = built.lhs
        /\ \A x \in Values : check(from_generic(built.rhs), x) = check(c, x)

\* C24 for the literals without the default pseudo-key.
C24_NoDefaultKeyKept ==
    (built.how = "resolve" /\ ~HasDefaultKey(built.lhs)) =>
        /\ built.rhs = built.lhs
        /\ \A x \in Values : check(from_generic(built.rhs), x) = check(c, x)

\* C25: a candidate that is not a dict (a list, a tuple, a string, or
\* anything else, empty or not) is never accepted by a DICT constraint,
\* whatever its default and its named constraints are.
C25_DictAcceptsOnlyDicts ==
    (op = "check" /\ c.op = "DICT" /\ v.kind # "dict") => chk # "T"

=============================================================================
